---- MODULE Spec2Model ----
(***************************************************************************)
(* Container widgets of ipywidgets/widgets/widget_box.py (Box, Carousel)   *)
(* and ipywidgets/widgets/widget_selectioncontainer.py                     *)
(* (_SelectionContainer, Accordion, Tab).                                  *)
(*                                                                         *)
(* One container object is modelled together with the single-threaded      *)
(* caller that drives it: the caller is either at top level, inside the    *)
(* body of a `with c.capture(...)` block, or inside a `for` loop over      *)
(* `c.iter_capture(...)`.                                                  *)
(*                                                                         *)
(* Python values: None is the empty tuple and any other value v is the     *)
(* one-element tuple <<v>>, so None is distinct from every integer and     *)
(* every string.  Strings are TLA+ strings, "" being the falsy one.        *)
(***************************************************************************)
EXTENDS Integers, Sequences, FiniteSets, TLC

----------------------------------------------------------------------------
(* Bounds of the model                                                     *)

\* len(children) never grows beyond this in the model
MaxChildren == 2
\* largest index the caller passes to set_title directly
MaxTitleIndex == 1
\* longest upstream sequence handed to iter_capture
MaxItems == 2
\* iter_capture is started only when len(children) stays below this
MaxIterChildren == 4

----------------------------------------------------------------------------
(* Python values                                                           *)

None == << >>

Some(v) == << v >>

\* bool(x) for x None or a string
Truthy(x) == x # None /\ x[1] # ""

\* bool(x) for x None or a boolean
TruthyFlag(x) == x # None /\ x[1]

Range(s) == { s[i] : i \in 1..Len(s) }

Widget(k) == << "Widget", k >>

Output(k) == << "Output", k >>

\* the widgets the caller constructed itself
Widgets == { Widget("a"), Widget("b") }

\* Output(**kw): a new object, distinct from every Output still referenced
NewOutput(chs, active) ==
    Output(CHOOSE k \in 1..(Len(chs) + Cardinality(active) + 1) :
              /\ Output(k) \notin Range(chs) \cup active
              /\ \A j \in 1..(k - 1) : Output(j) \in Range(chs) \cup active)

\* sequences over S of length at most n
SeqUpTo(S, n) == UNION { [1..m -> S] : m \in 0..n }

\* titles the caller passes: a falsy and a truthy string
Titles == { "", "a" }

\* upstream items: a falsy and a truthy string
Items == { "", "a" }

Digits == << "0", "1", "2", "3", "4", "5", "6", "7", "8", "9" >>

RECURSIVE Decimal(_)
Decimal(n) ==
    IF n < 10 THEN Digits[n + 1]
    ELSE Decimal(n \div 10) \o Digits[(n % 10) + 1]

\* unicode_type(int(index)) for an integer index
unicode_type(n) == IF n < 0 THEN "-" \o Decimal(0 - n) ELSE Decimal(n)

----------------------------------------------------------------------------
(* State                                                                   *)

VARIABLES
    kind,            \* class of the container: "Carousel" or "Tab"
    children,        \* Box.children, a tuple of widgets
    _titles,         \* _SelectionContainer._titles, dict: string key -> title
    selected_index,  \* _SelectionContainer.selected_index: None or <<int>>
    frontend,        \* the state last synchronized to the front end
    capturing,       \* Output widgets whose `with` scope is entered
    pc,              \* where the caller is: "top", "with", "pull", "for"
    block,           \* the Output of the caller's open with-block, or None
    gen,             \* the generator object made by iter_capture
    last             \* the operation the caller performed last, its outcome

vars == << kind, children, _titles, selected_index, frontend, capturing,
           pc, block, gen, last >>

\* the message of the one validation error
TraitError == "Invalid selection: index out of bounds"

\* the error a caller's body or an upstream iterable raises
BodyError == "RuntimeError"

\* no generator object exists
NoGen ==
    [ state |-> "none", items |-> << >>, upstream |-> << >>,
      as_title |-> "False", out |-> None, yielded |-> << >>,
      appended |-> 0, N |-> 0, titles0 |-> << >>, exit |-> "" ]

\* the record of an operation: its name, its arguments, the error it raised
Op(name) ==
    [ op |-> name, raised |-> "", index |-> None, child |-> None,
      title |-> None, selected |-> None, notified |-> << >> ]

\* the container object as one record; raised is the error, if any, that
\* the running method has raised
Self ==
    [ children |-> children, _titles |-> _titles,
      selected_index |-> selected_index, frontend |-> frontend,
      raised |-> "" ]

Store(self) ==
    /\ children' = self.children
    /\ _titles' = self._titles
    /\ selected_index' = self.selected_index
    /\ frontend' = self.frontend

----------------------------------------------------------------------------
(* Traits and synchronization                                              *)

\* Widget.send_state(key): push the current value of one field
send_state(self, key) ==
    [ self EXCEPT !.frontend =
        CASE key = "children" -> [ @ EXCEPT !.children = self.children ]
          [] key = "_titles" -> [ @ EXCEPT !._titles = self._titles ]
          [] key = "selected_index" ->
                 [ @ EXCEPT !.selected_index = self.selected_index ] ]

\* the validator with its upper bound off by one
_validated_index_upper(value, chs) ==
    value = None \/ (0 <= value[1] /\ value[1] <= Len(chs))

\* the validator with its lower bound off by one
_validated_index_lower(value, chs) ==
    value = None \/ (0 < value[1] /\ value[1] < Len(chs))

\* @validate('selected_index'): TRUE when the proposal is returned, FALSE
\* when TraitError is raised
_validated_index(value, chs) ==
    value = None \/ (0 <= value[1] /\ value[1] < Len(chs))

\* self.selected_index = value: the validator runs first, and only a value
\* it returns is stored and synchronized
set_selected_index(self, value) ==
    IF self.raised # "" THEN self
    ELSE IF _validated_index(value, self.children)
    THEN send_state([ self EXCEPT !.selected_index = value ], "selected_index")
    ELSE [ self EXCEPT !.raised = TraitError ]

\* the assignment to children with a selected_index that the new children
\* put out of bounds reset to None
set_children_reset(self, value) ==
    IF self.raised # "" THEN self
    ELSE send_state(
           [ self EXCEPT
               !.children = value,
               !.selected_index =
                   IF _validated_index(@, value) THEN @ ELSE None ],
           "children")

\* self.children = value: a synced trait, assignment rebinds and syncs
set_children(self, value) ==
    IF self.raised # "" THEN self
    ELSE send_state([ self EXCEPT !.children = value ], "children")

----------------------------------------------------------------------------
(* _SelectionContainer methods                                             *)

\* the dict replaced by one that holds the new entry alone
DictSet_alone(d, key, value) == key :> value

\* self._titles[index] = title on the dict
DictSet(d, key, value) ==
    [ k \in (DOMAIN d) \cup { key } |-> IF k = key THEN value ELSE d[k] ]

\* set_title with the bounds check of selected_index applied to index
set_title_checked(self, index, title) ==
    IF self.raised # "" THEN self
    ELSE IF ~(0 <= index /\ index < Len(self.children))
    THEN [ self EXCEPT !.raised = TraitError ]
    ELSE send_state(
           [ self EXCEPT !._titles = DictSet(@, unicode_type(index), title) ],
           "_titles")

\* set_title with the push of _titles left out
set_title_unsent(self, index, title) ==
    IF self.raised # "" THEN self
    ELSE [ self EXCEPT !._titles = DictSet(@, unicode_type(index), title) ]

set_title(self, index, title) ==
    IF self.raised # "" THEN self
    ELSE send_state(
           [ self EXCEPT !._titles = DictSet(@, unicode_type(index), title) ],
           "_titles")

get_title(titles, index) ==
    IF unicode_type(index) \in DOMAIN titles
    THEN Some(titles[unicode_type(index)])
    ELSE None

\* the new child put first instead of last
AppendChild_front(self, child) ==
    set_children(self, << child >> \o self.children)

\* the three statements of append_item, in order
AppendChild(self, child) ==
    set_children(self, Append(self.children, child))

AppendTitle(self, title) ==
    IF Truthy(title)
    THEN set_title(self, Len(self.children) - 1, title[1])
    ELSE self

AppendSelected(self, selected) ==
    IF TruthyFlag(selected)
    THEN set_selected_index(self, Some(Len(self.children) - 1))
    ELSE self

\* append_item with the selection made before the append
append_item_select_first(self, child, title, selected) ==
    AppendTitle(AppendChild(AppendSelected(self, selected), child), title)

append_item(self, child, title, selected) ==
    AppendSelected(AppendTitle(AppendChild(self, child), title), selected)

\* Carousel.append_item
Carousel_append_item(self, child) ==
    set_children(self, Append(self.children, child))

----------------------------------------------------------------------------
(* Construction                                                            *)

InitialChildren == SeqUpTo(Widgets, MaxChildren)

\* selected_index after construction: the default of CInt, 0, which no
\* validator sees, when the keyword is not given, else a keyword value that
\* passed the validator
InitialIndex(chs) ==
    { Some(0) } \cup { v \in { None } \cup { Some(i) : i \in 0..MaxChildren } :
                         _validated_index(v, chs) }

Init ==
    /\ kind \in { "Carousel", "Tab" }
    /\ children \in InitialChildren
    /\ _titles = << >>
    /\ selected_index \in
         IF kind = "Tab" THEN InitialIndex(children) ELSE { None }
    /\ frontend = [ children |-> children, _titles |-> _titles,
                    selected_index |-> selected_index ]
    /\ capturing = {}
    /\ pc = "top"
    /\ block = None
    /\ gen = NoGen
    /\ last = Op("__init__")

----------------------------------------------------------------------------
(* Operations the caller performs at top level                             *)

\* title arguments of append_item and capture: the default, a falsy and a
\* truthy string
TitleArgs == { None } \cup { Some(t) : t \in Titles }

\* selected arguments of append_item and capture
SelectedArgs == { None, Some(FALSE), Some(TRUE) }

IndexValues == { None } \cup { Some(i) : i \in (0 - 1)..MaxChildren }

SetSelectedIndex(value) ==
    /\ pc = "top" /\ kind = "Tab"
    /\ LET self == set_selected_index(Self, value)
       IN /\ Store(self)
          /\ last' = [ Op("selected_index") EXCEPT
                         !.index = value, !.raised = self.raised ]
    /\ UNCHANGED << kind, capturing, pc, block, gen >>

SetTitle(index, title) ==
    /\ pc = "top" /\ kind = "Tab"
    /\ LET self == set_title(Self, index, title)
       IN /\ Store(self)
          /\ last' = [ Op("set_title") EXCEPT
                         !.index = Some(index), !.title = Some(title),
                         !.raised = self.raised ]
    /\ UNCHANGED << kind, capturing, pc, block, gen >>

AppendItem(child, title, selected) ==
    /\ pc = "top" /\ kind = "Tab"
    /\ Len(children) < MaxChildren
    /\ LET self == append_item(Self, child, title, selected)
       IN /\ Store(self)
          /\ last' = [ Op("append_item") EXCEPT
                         !.child = Some(child), !.title = title,
                         !.selected = selected, !.raised = self.raised ]
    /\ UNCHANGED << kind, capturing, pc, block, gen >>

CarouselAppendItem(child) ==
    /\ pc = "top" /\ kind = "Carousel"
    /\ Len(children) < MaxChildren
    /\ LET self == Carousel_append_item(Self, child)
       IN /\ Store(self)
          /\ last' = [ Op("append_item") EXCEPT
                         !.child = Some(child), !.raised = self.raised ]
    /\ UNCHANGED << kind, capturing, pc, block, gen >>

\* c.children = value, any new sequence: longer, shorter or reordered
SetChildren(value) ==
    /\ pc = "top"
    /\ LET self == set_children(Self, value)
       IN /\ Store(self)
          /\ last' = [ Op("children") EXCEPT !.raised = self.raised ]
    /\ UNCHANGED << kind, capturing, pc, block, gen >>

TopLevel ==
    \/ \E value \in IndexValues : SetSelectedIndex(value)
    \/ \E index \in 0..MaxTitleIndex, title \in Titles : SetTitle(index, title)
    \/ \E child \in Widgets, title \in TitleArgs, selected \in SelectedArgs :
          AppendItem(child, title, selected)
    \/ \E child \in Widgets : CarouselAppendItem(child)
    \/ \E value \in SeqUpTo(Widgets, MaxChildren) :
          SetChildren(value)

----------------------------------------------------------------------------
(* capture: a with-block of the caller                                     *)

\* Output.__enter__: output is redirected into out from now on
Output_enter(active, out) == active \cup { out }

\* Output.__exit__: out stops redirecting; an error of the body goes on to
\* the caller
Output_exit(active, out) == active \ { out }

\* capture with the title set before the child is appended
capture_title_first(self, out, title, selected) ==
    AppendSelected(AppendChild(AppendTitle(self, title), out), selected)

\* the statements of capture before its yield: create the Output, append
\* it, and only then enter it
capture(self, out, title, selected) ==
    append_item(self, out, title, selected)

Carousel_capture(self, out) ==
    Carousel_append_item(self, out)

\* `with c.capture(title, selected):` up to the start of the body
CaptureEnter(title, selected) ==
    /\ pc = "top"
    /\ Len(children) < MaxChildren
    /\ kind = "Carousel" => title = None /\ selected = None
    /\ LET out == NewOutput(children, capturing)
           self == IF kind = "Carousel" THEN Carousel_capture(Self, out)
                   ELSE capture(Self, out, title, selected)
       IN /\ Store(self)
          /\ last' = [ Op("capture") EXCEPT
                         !.index = Some(Len(children)), !.child = Some(out),
                         !.title = title, !.selected = selected,
                         !.raised = self.raised ]
          /\ IF self.raised = ""
             THEN /\ capturing' = Output_enter(capturing, out)
                  /\ block' = Some(out)
                  /\ pc' = "with"
             ELSE UNCHANGED << capturing, block, pc >>
    /\ UNCHANGED << kind, gen >>

\* the body of the with-block ends, normally or by raising: the error is
\* thrown into capture at its yield and leaves through `with out`
CaptureExit(raised) ==
    /\ pc = "with"
    /\ capturing' = Output_exit(capturing, block[1])
    /\ block' = None
    /\ pc' = "top"
    /\ last' = [ last EXCEPT !.op = "capture_exit", !.raised = raised ]
    /\ UNCHANGED << kind, children, _titles, selected_index, frontend, gen >>

WithBlock ==
    \/ \E title \in TitleArgs, selected \in SelectedArgs :
          CaptureEnter(title, selected)
    \/ \E raised \in { "", BodyError } : CaptureExit(raised)

----------------------------------------------------------------------------
(* Display                                                                 *)

\* the container itself, as the receiver of a display event
Container == << "Box", "self" >>

\* the children notified in the opposite order
_fire_children_displayed_reversed(chs) ==
    [ i \in 1..Len(chs) |-> chs[Len(chs) + 1 - i] ]

\* for child in self.children: child._handle_displayed()
\* the widgets whose _handle_displayed is called, in the order of the calls
_fire_children_displayed(chs) ==
    [ i \in 1..Len(chs) |-> chs[i] ]

\* Widget._handle_displayed of the container: its own display event, then
\* the callback registered by on_displayed in Box.__init__
_handle_displayed(chs) == << Container >> \o _fire_children_displayed(chs)

\* the container is displayed
Display ==
    /\ pc = "top"
    /\ last' = [ Op("display") EXCEPT !.notified = _handle_displayed(children) ]
    /\ UNCHANGED << kind, children, _titles, selected_index, frontend,
                    capturing, pc, block, gen >>

Next == TopLevel \/ WithBlock \/ Display

Spec == Init /\ [][Next]_vars

----------------------------------------------------------------------------
(* iter_capture: a generator the caller iterates over in a for loop        *)

\* values of the as_title argument: falsy, truthy but not callable, and two
\* callables, str and lambda x: "n" + x
AsTitles == { "None", "False", "True", "str", "lambda" }

callable(as_title) == as_title \in { "str", "lambda" }

Call(as_title, i) == IF as_title = "lambda" THEN "n" \o i ELSE i

\* title = as_title and (as_title(i) if callable(as_title) else i)
DerivedTitle(as_title, i) ==
    IF as_title \in { "None", "False" } THEN None
    ELSE IF callable(as_title) THEN Some(Call(as_title, i))
    ELSE Some(i)

\* no title set before the yield
IterTitle_skipped(self, title) == self

\* if title: self.set_title(len(self.children) - 1, title)
IterTitle(self, title) ==
    IF Truthy(title)
    THEN set_title(self, Len(self.children) - 1, title[1])
    ELSE self

\* g = c.iter_capture(items, as_title): calling a generator function runs
\* none of its body; the for loop then pulls from g
IterCapture(items, as_title) ==
    /\ pc = "top" /\ kind = "Tab"
    /\ gen.state \notin { "created", "suspended" }
    /\ Len(children) + Len(items) < MaxIterChildren
    /\ gen' = [ NoGen EXCEPT !.state = "created", !.items = items,
                  !.upstream = items, !.as_title = as_title,
                  !.N = Len(children), !.titles0 = _titles ]
    /\ pc' = "pull"
    /\ last' = Op("iter_capture")
    /\ UNCHANGED << kind, children, _titles, selected_index, frontend,
                    capturing, block >>

\* the except clauses of the try block: StopIteration and KeyboardInterrupt
\* are caught and end the loop by break
Caught_StopIteration_only(why) == why = "StopIteration"

Caught(why) == why \in { "StopIteration", "KeyboardInterrupt" }

\* the error that reaches the caller of next(g) when the try block is left
\* by why: none when it is caught, the error itself otherwise
Propagated(why) == IF Caught(why) THEN "" ELSE why

\* the generator ends: by break out of `while True` after StopIteration or
\* KeyboardInterrupt (raised "" reaches the caller), or by another error
GenEnd(why, raised) ==
    [ gen EXCEPT !.state = IF raised = "" THEN "finished" ELSE "raised",
                 !.exit = why, !.out = None, !.appended = @ + 1 ]

\* what leaves the try block: an event, or StopIteration from next(items)
\* on an exhausted upstream, or nothing
Leaves(event) ==
    CASE event = "KeyboardInterrupt" -> "KeyboardInterrupt"
      [] event = "error" -> BodyError
      [] event = "" /\ gen.items = << >> -> "StopIteration"
      [] OTHER -> ""

\* next(g): the generator runs from its start, or from the yield it is
\* suspended at, to its next yield or to its end.  event is what happens in
\* the try block: nothing, a KeyboardInterrupt, or another error raised by
\* the upstream iterable or by as_title
GenNext(event) ==
    /\ pc = "pull"
    /\ LET left == IF gen.state = "suspended"
                   THEN Output_exit(capturing, gen.out[1])
                   ELSE capturing
           out == NewOutput(children, left)
           self == capture(Self, out, None, None)
           entered == Output_enter(left, out)
           why == Leaves(event)
       IN IF why # ""
          THEN /\ Store(self)
               /\ capturing' = Output_exit(entered, out)
               /\ gen' = GenEnd(why, Propagated(why))
               /\ pc' = "top"
               /\ last' = [ Op("next") EXCEPT !.raised = Propagated(why) ]
          ELSE /\ Store(IterTitle(self,
                          DerivedTitle(gen.as_title, Head(gen.items))))
               /\ capturing' = entered
               /\ gen' = [ gen EXCEPT !.state = "suspended",
                             !.items = Tail(@), !.out = Some(out),
                             !.yielded = Append(@, Head(gen.items)),
                             !.appended = @ + 1 ]
               /\ pc' = "for"
               /\ last' = [ Op("next") EXCEPT
                              !.child = Some(Head(gen.items)) ]
    /\ UNCHANGED << kind, block >>

\* the loop body for the yielded item completes; the loop pulls again
LoopBodyDone ==
    /\ pc = "for"
    /\ pc' = "pull"
    /\ last' = Op("loop_body")
    /\ UNCHANGED << kind, children, _titles, selected_index, frontend,
                    capturing, block, gen >>

\* generator.close(): GeneratorExit is raised at the yield, neither except
\* clause catches it, and it leaves through the with statements
GenClosed == [ gen EXCEPT !.state = "closed", !.out = None ]

\* the caller leaves the loop early, by break (raised "") or by an error of
\* the loop body, and does not pull again.  The suspended generator is
\* finalized at once when the loop held the only reference to it, and stays
\* suspended otherwise
LoopLeave(raised, finalized) ==
    /\ pc = "for"
    /\ pc' = "top"
    /\ last' = [ Op("leave") EXCEPT !.raised = raised ]
    /\ IF finalized
       THEN /\ gen' = GenClosed
            /\ capturing' = Output_exit(capturing, gen.out[1])
       ELSE UNCHANGED << gen, capturing >>
    /\ UNCHANGED << kind, children, _titles, selected_index, frontend, block >>

\* a generator left suspended is closed later: g.close(), or its finalizer
GenClose ==
    /\ pc = "top"
    /\ gen.state = "suspended"
    /\ gen' = GenClosed
    /\ capturing' = Output_exit(capturing, gen.out[1])
    /\ last' = Op("close")
    /\ UNCHANGED << kind, children, _titles, selected_index, frontend,
                    pc, block >>

\* containers iter_capture is called on
InitIter ==
    /\ kind = "Tab"
    /\ children \in { << >>, << Widget("a") >> }
    /\ _titles \in { << >>, "0" :> "t" }
    /\ selected_index \in { None, Some(0) }
    /\ frontend = [ children |-> children, _titles |-> _titles,
                    selected_index |-> selected_index ]
    /\ capturing = {}
    /\ pc = "top"
    /\ block = None
    /\ gen = NoGen
    /\ last = Op("__init__")

NextIter ==
    \/ \E items \in SeqUpTo(Items, MaxItems), as_title \in AsTitles :
          IterCapture(items, as_title)
    \/ \E event \in { "", "KeyboardInterrupt", "error" } : GenNext(event)
    \/ LoopBodyDone
    \/ \E raised \in { "", BodyError }, finalized \in BOOLEAN :
          LoopLeave(raised, finalized)
    \/ GenClose

SpecIter == InitIter /\ [][NextIter]_vars

\* the interpreter runs a pull to its yield or its end, and the body of the
\* caller's loop comes to an end, normally or not
SpecIterFair ==
    /\ SpecIter
    /\ WF_vars(\E event \in { "", "KeyboardInterrupt", "error" } :
                  GenNext(event))
    /\ WF_vars(LoopBodyDone
                 \/ \E raised \in { "", BodyError }, finalized \in BOOLEAN :
                       LoopLeave(raised, finalized))

----------------------------------------------------------------------------
(* Properties of the top-level operations and of capture, under Spec       *)

InBounds(value, chs) == 0 <= value[1] /\ value[1] < Len(chs)

\* C1: in every reachable state of a selection container selected_index is
\* None or satisfies 0 <= selected_index < len(children)
C1_SelectedIndexInBounds ==
    kind = "Tab" =>
        selected_index = None \/ InBounds(selected_index, children)

\* C2: assigning an integer outside [0, len(children)) to selected_index
\* raises the bounds-validation error and leaves selected_index, children,
\* the titles and the synchronized state as they were
C2_OutOfBoundsRejected ==
    [][ ( /\ last'.op = "selected_index"
          /\ last'.index # None
          /\ ~InBounds(last'.index, children) )
        => ( /\ last'.raised = TraitError
             /\ selected_index' = selected_index
             /\ children' = children
             /\ _titles' = _titles
             /\ frontend' = frontend ) ]_vars

\* an out-of-bounds assignment has been rejected while an index is selected
C2_Witness ==
    /\ last.op = "selected_index"
    /\ last.raised = TraitError
    /\ last.index = Some(Len(children))
    /\ selected_index # None

\* C3: assigning None, or an integer i with 0 <= i < len(children), to
\* selected_index raises nothing, and selected_index then reads as the
\* assigned value
C3_InBoundsAccepted ==
    [][ ( /\ last'.op = "selected_index"
          /\ (last'.index = None \/ InBounds(last'.index, children)) )
        => ( /\ last'.raised = ""
             /\ selected_index' = last'.index ) ]_vars

\* index 0 has been assigned on a container that holds MaxChildren children
C3_Witness ==
    /\ last.op = "selected_index"
    /\ last.raised = ""
    /\ last.index = Some(0)
    /\ selected_index = Some(0)
    /\ Len(children) = MaxChildren

\* C4: append_item, on Carousel and on the selection container, makes
\* children one longer, with the new child last and the previous children
\* before it in their order, by assigning a new sequence to children, which
\* is what synchronizes it
C4_AppendKeepsOrder ==
    [][ last'.op = "append_item"
        => ( /\ last'.raised = ""
             /\ Len(children') = Len(children) + 1
             /\ children'[Len(children')] = last'.child[1]
             /\ SubSeq(children', 1, Len(children)) = children
             /\ frontend'.children = children' ) ]_vars

\* a Carousel has appended a second, different child
C4_Witness ==
    /\ kind = "Carousel"
    /\ last.op = "append_item"
    /\ Len(children) = 2
    /\ children[1] # children[2]

\* C5: append_item(child, title, selected) on a selection container raises
\* nothing and leaves the child at the last index L; a truthy title is the
\* title at L and a falsy one leaves the titles unchanged; a truthy selected
\* makes selected_index L and a falsy one leaves selected_index unchanged
C5_AppendTitleSelected ==
    [][ (last'.op = "append_item" /\ kind = "Tab")
        => LET L == Len(children') - 1
           IN /\ last'.raised = ""
              /\ L = Len(children)
              /\ children'[L + 1] = last'.child[1]
              /\ IF Truthy(last'.title)
                 THEN get_title(_titles', L) = last'.title
                 ELSE _titles' = _titles
              /\ IF TruthyFlag(last'.selected)
                 THEN selected_index' = Some(L)
                 ELSE selected_index' = selected_index ]_vars

\* a titled, selected child has been appended to a container without
\* children
C5_Witness ==
    /\ kind = "Tab"
    /\ last.op = "append_item"
    /\ Truthy(last.title)
    /\ TruthyFlag(last.selected)
    /\ Len(children) = 1
    /\ selected_index = Some(0)
    /\ get_title(_titles, 0) = last.title

\* C6: when the body of `with c.capture(title=t)` raises on a selection
\* container that had n children, the error reaches the caller and the
\* container has n + 1 children, the Output at position n, titled t
C6_CaptureNotRolledBack ==
    (kind = "Tab" /\ last.op = "capture_exit" /\ last.raised = BodyError)
    => LET n == last.index[1]
       IN /\ pc = "top"
          /\ Len(children) = n + 1
          /\ children[n + 1] = last.child[1]
          /\ Truthy(last.title) => get_title(_titles, n) = last.title

\* a titled capture on a container with a child has left by an error
C6_Witness ==
    /\ kind = "Tab"
    /\ last.op = "capture_exit"
    /\ last.raised = BodyError
    /\ Truthy(last.title)
    /\ last.index = Some(1)

----------------------------------------------------------------------------
(* Properties of iter_capture, under SpecIter                              *)

\* C7: once the caller has left the with-block or the loop, no capture
\* scope is redirecting output any more
C7_ScopesReleased == pc = "top" => capturing = {}

\* the generator was consumed to the end of the upstream sequence
Exhausted ==
    last.op = "next" /\ gen.state = "finished" /\ gen.exit = "StopIteration"

\* C8: after iter_capture with a callable as_title has been consumed, it
\* has yielded the upstream items in order, the title at position N + j is
\* as_title(item j), and the titles below N are as they were
C8_IterTitles ==
    (Exhausted /\ callable(gen.as_title))
    => /\ gen.yielded = gen.upstream
       /\ \A j \in 1..Len(gen.upstream) :
             get_title(_titles, gen.N + j - 1)
               = Some(Call(gen.as_title, gen.upstream[j]))
       /\ \A i \in 0..(gen.N - 1) :
             get_title(_titles, i) = get_title(gen.titles0, i)

\* C9: iter_capture appends one child per item yielded: N + j children
\* while the j-th item is out, N + k once the k upstream items are exhausted
C9_OneChildPerItem ==
    /\ pc = "for" => Len(children) = gen.N + Len(gen.yielded)
    /\ Exhausted => Len(children) = gen.N + Len(gen.upstream)

\* C10: the title of the child of a yielded item is as_title(item) for a
\* callable as_title, the item itself for any other truthy as_title, and is
\* not set for a falsy as_title
C10_TitleFromAsTitle ==
    pc = "for"
    => LET item == last.child[1]
           L == Len(children) - 1
       IN IF callable(gen.as_title)
          THEN get_title(_titles, L) = Some(Call(gen.as_title, item))
          ELSE IF gen.as_title = "True"
          THEN get_title(_titles, L) = Some(item)
          ELSE get_title(_titles, L) = get_title(gen.titles0, L)

\* C11: a loop over iter_capture comes to an end; the generator ends
\* without an error reaching the caller when the upstream is exhausted or a
\* KeyboardInterrupt is raised in its try block, and any other error raised
\* there reaches the caller as it is
C11_IterTerminates ==
    /\ [] ( (last.op = "next" /\ gen.state \in { "finished", "raised" })
            => /\ pc = "top"
               /\ gen.exit \in { "StopIteration", "KeyboardInterrupt" }
                    => (gen.state = "finished" /\ last.raised = "")
               /\ gen.exit \notin { "StopIteration", "KeyboardInterrupt" }
                    => (gen.state = "raised" /\ last.raised = gen.exit)
               /\ gen.exit = "StopIteration"
                    => (gen.items = << >> /\ gen.yielded = gen.upstream) )
    /\ (pc \in { "pull", "for" }) ~> (pc = "top")

\* a KeyboardInterrupt has ended the generator after it yielded an item,
\* with upstream items left
C11_Witness ==
    /\ last.op = "next"
    /\ gen.state = "finished"
    /\ gen.exit = "KeyboardInterrupt"
    /\ gen.yielded # << >>
    /\ gen.items # << >>
    /\ last.raised = ""

----------------------------------------------------------------------------
(* Titles, display and frame properties, under Spec                        *)

\* indexes a title can be stored under in the model
TitleIndexes == 0..(MaxChildren + MaxTitleIndex)

\* the operation l, begun with children chs, calls set_title on index j
SetsTitleAt(l, chs, j) ==
    \/ l.op = "set_title" /\ l.index = Some(j)
    \/ l.op \in { "append_item", "capture" } /\ Truthy(l.title) /\ j = Len(chs)

\* C12: get_title(i) is None until a title is set on i; after set_title(i, t)
\* it is t, and it keeps its value over every operation that sets no title
\* on i, so that the last write on i wins and other indexes are unaffected
C12_TitleRoundTrip ==
    /\ \A j \in TitleIndexes : get_title(_titles, j) = None
    /\ [][ \A j \in TitleIndexes :
             IF SetsTitleAt(last', children, j)
             THEN get_title(_titles', j) = last'.title
             ELSE get_title(_titles', j) = get_title(_titles, j) ]_vars

\* a title on index 0 has been overwritten while index 1 holds another
C12_Witness ==
    /\ last.op = "set_title"
    /\ last.index = Some(0)
    /\ get_title(_titles, 0) = Some("")
    /\ get_title(_titles, 1) = Some("a")
    /\ get_title(_titles, 2) = None

\* C13: displaying the container notifies, after the container's own
\* display event, every child in children exactly once, in child order
C13_ChildrenDisplayed ==
    last.op = "display"
    => /\ Len(last.notified) = Len(children) + 1
       /\ last.notified[1] = Container
       /\ \A i \in 1..Len(children) : last.notified[i + 1] = children[i]

\* a container with two different children has been displayed
C13_Witness ==
    /\ last.op = "display"
    /\ Len(children) = 2
    /\ children[1] # children[2]
    /\ Len(last.notified) = 3

\* C14: only an assignment to selected_index raises the validation error;
\* set_title(i, t) raises nothing for any i, in bounds or not, stores t
\* under the decimal string of i and leaves selected_index alone; appending
\* a child raises nothing and, unless selected is truthy, leaves
\* selected_index alone
C14_OnlySelectionValidates ==
    [][ /\ last'.raised = TraitError => last'.op = "selected_index"
        /\ last'.op = "set_title"
             => /\ last'.raised = ""
                /\ ToString(last'.index[1]) \in DOMAIN _titles'
                /\ _titles'[ToString(last'.index[1])] = last'.title[1]
                /\ selected_index' = selected_index
        /\ last'.op = "append_item"
             => /\ last'.raised = ""
                /\ ~TruthyFlag(last'.selected)
                     => selected_index' = selected_index ]_vars

\* a title has been set on index 1 of a container without children
C14_Witness ==
    /\ kind = "Tab"
    /\ last.op = "set_title"
    /\ last.index = Some(1)
    /\ last.raised = ""
    /\ children = << >>
    /\ "1" \in DOMAIN _titles

----------------------------------------------------------------------------
(* The suspension point of iter_capture, under SpecIter                    *)

\* the title iter_capture derives for an item, spelled out case by case
ExpectedTitle(as_title, item) ==
    CASE as_title = "lambda" -> Some("n" \o item)
      [] as_title \in { "str", "True" } -> Some(item)
      [] OTHER -> None

----------------------------------------------------------------------------
(* Synchronization and frame properties, under Spec                        *)

\* C16: the title mapping last sent to the front end is the container's
\* current title mapping, whichever of set_title, append_item and capture
\* set the titles
C16_TitlesSynchronized == kind = "Tab" => frontend._titles = _titles

\* titles set by set_title and by capture are both at the front end
C16_Witness ==
    /\ last.op = "capture"
    /\ Truthy(last.title)
    /\ last.index = Some(1)
    /\ DOMAIN _titles = { "0", "1" }
    /\ frontend._titles["0"] = ""
    /\ frontend._titles["1"] = "a"

\* the operation l replaces children and does nothing else: an assignment
\* to children, or append_item without a truthy title or selected
ReplacesChildrenOnly(l) ==
    \/ l.op = "children"
    \/ l.op = "append_item" /\ ~Truthy(l.title) /\ ~TruthyFlag(l.selected)

====
